---------------------------- MODULE Spec2Model ----------------------------
(***************************************************************************)
(* Book Catalog REST API (part-4/app.py): the Book table and the five      *)
(* request handlers get_books, create_book, update_book, delete_book and   *)
(* search_books, each modelled as one atomic request against the table.    *)
(*                                                                         *)
(* Values.  A Python value that may be None (a nullable column, a JSON     *)
(* null, a missing query parameter) is an option: None is <<>> and         *)
(* Some(x) is <<x>>.  A text is a tuple of one-character strings, so that  *)
(* LIKE matching and int() parsing are computed character by character.    *)
(***************************************************************************)
EXTENDS Integers, Sequences, FiniteSets, TLC

VARIABLES
    books,   \* the Book table: a function from the ids of its rows to the rows
    resp,    \* the response to the last request: [op, status, body]
    deleted, \* history: the ids delete_book has removed (kept where tracked)
    inflight \* the create_book requests being served at once, one per worker

vars == <<books, resp, deleted, inflight>>

---------------------------------------------------------------------------
(* Bounds of the exploration *)

\* create_book is explored only while the row id it assigns is at most MaxId
\* (from the empty table) or MaxSeededId (from the sample rows)
MaxId == 2
MaxSeededId == 3

---------------------------------------------------------------------------
(* Options and Python truthiness *)

None == <<>>
Some(x) == <<x>>

\* a handler that tests `is not None` where the code tests truthiness
Truthy_notNone(o) == o # None

\* bool(v) of a str-or-None value: None and '' are falsy
Truthy(o) == o # None /\ Len(o[1]) > 0

\* dict.get(key): the value, or None when the key is not in the dict
Get(d, k) == IF k \in DOMAIN d THEN d[k] ELSE None

\* a handler that tests `data is None` where the code tests `not data`
NotData_noneOnly(data) == data = None

\* `not data` for the result of request.get_json(): None or an empty dict
NotData(data) == data = None \/ DOMAIN data[1] = {}

---------------------------------------------------------------------------
(* The Book model *)

\* the mapped columns of Book
BookColumns == {"id", "title", "author", "year", "isbn", "created_at"}

\* attributes of the Book class that are no columns, yet satisfy hasattr
BookOtherAttrs == {"to_dict", "query", "metadata"}

\* datetime.isoformat(): the timestamp rendered as text
IsoFormat(t) == <<"iso", t>>

\* Book.to_dict
to_dict(id, b) ==
    [ id         |-> id,
      title      |-> b.title,
      author     |-> b.author,
      year       |-> b.year,
      isbn       |-> b.isbn,
      created_at |-> IF b.created_at # None
                     THEN Some(IsoFormat(b.created_at[1])) ELSE None ]

\* title and author are nullable=False
NotNullOk(bs) ==
    \A i \in DOMAIN bs : bs[i].title # None /\ bs[i].author # None

\* an isbn column declared without unique=True
UniqueOk_undeclared(bs) == TRUE

\* isbn is unique=True: no two rows hold the same non-NULL isbn
UniqueOk(bs) ==
    \A i, j \in DOMAIN bs :
        (i # j /\ bs[i].isbn # None) => bs[i].isbn # bs[j].isbn

\* The constraints the table declares, checked by the store at commit: None
\* when they hold, else the IntegrityError the commit raises
IntegrityFault(bs) ==
    IF ~NotNullOk(bs) THEN Some("IntegrityError: NOT NULL constraint failed")
    ELSE IF ~UniqueOk(bs) THEN Some("IntegrityError: UNIQUE constraint failed: book.isbn")
    ELSE None

MaxOf(S) == CHOOSE m \in S : \A x \in S : x <= m

\* a store that numbers a new row by the count of rows
NextId_byCount(bs) == Cardinality(DOMAIN bs) + 1

\* The id an INTEGER PRIMARY KEY column of the sqlite store gives a new row:
\* one more than the largest id in the table, 1 for an empty table
NextId(bs) == IF DOMAIN bs = {} THEN 1 ELSE MaxOf(DOMAIN bs) + 1

---------------------------------------------------------------------------
(* Responses *)

\* jsonify(body), status
Json(op, status, body) == [op |-> op, status |-> status, body |-> body]

\* an exception no handler catches: Flask answers 500 without an envelope,
\* and the session's transaction is rolled back
Unhandled(op, exc) == [op |-> op, status |-> 500, body |-> [exception |-> exc]]

Error(op, status, msg) == Json(op, status, [success |-> FALSE, error |-> msg])

\* what a handler does: the table it leaves and the response it returns
Outcome(bs, r) == [books |-> bs, resp |-> r]

---------------------------------------------------------------------------
(* POST /api/books *)

\* a lookup that never finds the isbn
IsbnExists_never(bs, isbn) == FALSE

\* Book.query.filter_by(isbn=...).first() finds a row
IsbnExists(bs, isbn) == \E i \in DOMAIN bs : bs[i].isbn = isbn

create_book(bs, data, now) ==
    IF NotData(data)
    THEN Outcome(bs, Error("create", 400, "No data provided"))
    ELSE LET d == data[1] IN
    IF ~Truthy(Get(d, "title")) \/ ~Truthy(Get(d, "author"))
    THEN Outcome(bs, Error("create", 400, "Title and author are required"))
    ELSE IF Truthy(Get(d, "isbn")) /\ IsbnExists(bs, Get(d, "isbn"))
    THEN Outcome(bs, Error("create", 400, "ISBN already exists"))
    ELSE LET new_book == [ title      |-> d["title"],
                           author     |-> d["author"],
                           year       |-> Get(d, "year"),
                           isbn       |-> Get(d, "isbn"),
                           created_at |-> Some(now) ]
             id       == NextId(bs)
             added    == (id :> new_book) @@ bs
         IN  IF IntegrityFault(added) = None
             THEN Outcome(added,
                          Json("create", 201,
                               [ success |-> TRUE,
                                 message |-> "Book created successfully",
                                 book    |-> to_dict(id, new_book) ]))
             ELSE Outcome(bs, Unhandled("create", IntegrityFault(added)[1]))

---------------------------------------------------------------------------
(* PUT /api/books/<id> *)

\* an update that assigns every field from the body, as create_book does
ApplyBody_replace(old, d) ==
    [ title      |-> IF "title" \in DOMAIN d THEN d["title"] ELSE old.title,
      author     |-> IF "author" \in DOMAIN d THEN d["author"] ELSE old.author,
      year       |-> Get(d, "year"),
      isbn       |-> Get(d, "isbn"),
      created_at |-> old.created_at ]

\* "Update fields if provided": the row after the body's keys are assigned
ApplyBody(old, d) ==
    [ title      |-> IF "title" \in DOMAIN d THEN d["title"] ELSE old.title,
      author     |-> IF "author" \in DOMAIN d THEN d["author"] ELSE old.author,
      year       |-> IF "year" \in DOMAIN d THEN d["year"] ELSE old.year,
      isbn       |-> IF "isbn" \in DOMAIN d THEN d["isbn"] ELSE old.isbn,
      created_at |-> old.created_at ]

update_book(bs, id, data) ==
    IF id \notin DOMAIN bs
    THEN Outcome(bs, Error("update", 404, "Book not found"))
    ELSE IF NotData(data)
    THEN Outcome(bs, Error("update", 400, "No data provided"))
    ELSE LET book    == ApplyBody(bs[id], data[1])
             updated == [bs EXCEPT ![id] = book]
         IN  IF IntegrityFault(updated) = None
             THEN Outcome(updated,
                          Json("update", 200,
                               [ success |-> TRUE,
                                 message |-> "Book updated successfully",
                                 book    |-> to_dict(id, book) ]))
             ELSE Outcome(bs, Unhandled("update", IntegrityFault(updated)[1]))

---------------------------------------------------------------------------
(* DELETE /api/books/<id> *)

delete_book(bs, id) ==
    IF id \notin DOMAIN bs
    THEN Outcome(bs, Error("delete", 404, "Book not found"))
    ELSE Outcome([i \in DOMAIN bs \ {id} |-> bs[i]],
                 Json("delete", 200,
                      [ success |-> TRUE,
                        message |-> "Book deleted successfully" ]))

---------------------------------------------------------------------------
(* Text: characters, case folding, int() and LIKE *)

DigitChars == {"0", "1", "2", "3", "4", "5", "6", "7", "8", "9"}

DigitVal(c) ==
    CASE c = "0" -> 0 [] c = "1" -> 1 [] c = "2" -> 2 [] c = "3" -> 3
      [] c = "4" -> 4 [] c = "5" -> 5 [] c = "6" -> 6 [] c = "7" -> 7
      [] c = "8" -> 8 [] c = "9" -> 9

\* the code point of a character (the characters the model's texts use)
Ord(c) ==
    CASE c \in DigitChars -> 48 + DigitVal(c)
      [] c = "%" -> 37 [] c = "-" -> 45
      [] c = "A" -> 65 [] c = "B" -> 66 [] c = "X" -> 88 [] c = "_" -> 95
      [] c = "a" -> 97 [] c = "b" -> 98 [] c = "x" -> 120

\* lower() of one character
Lower(c) ==
    CASE c = "A" -> "a" [] c = "B" -> "b" [] c = "X" -> "x" [] OTHER -> c

RECURSIVE DigitsValue(_, _)
DigitsValue(s, acc) ==
    IF s = <<>> THEN acc ELSE DigitsValue(Tail(s), 10 * acc + DigitVal(Head(s)))

IsDigits(s) == Len(s) > 0 /\ \A i \in 1..Len(s) : s[i] \in DigitChars

\* int(text): Some(n), or None where Python raises ValueError
ParseInt(s) ==
    IF IsDigits(s) THEN Some(DigitsValue(s, 0))
    ELSE IF Len(s) > 1 /\ Head(s) = "-" /\ IsDigits(Tail(s))
    THEN Some(0 - DigitsValue(Tail(s), 0))
    ELSE None

\* request.args.get(key, default, type=int): the default when the parameter
\* is missing or int() rejects it
ArgInt(arg, default) ==
    IF arg = None \/ ParseInt(arg[1]) = None THEN default ELSE ParseInt(arg[1])[1]

\* text LIKE pattern, after both are lower-cased (ilike): % matches any run
\* of characters, _ matches any one character
RECURSIVE LikeMatch(_, _)
LikeMatch(p, s) ==
    IF p = <<>> THEN s = <<>>
    ELSE IF Head(p) = "%"
    THEN LikeMatch(Tail(p), s) \/ (s # <<>> /\ LikeMatch(p, Tail(s)))
    ELSE /\ s # <<>>
         /\ (Head(p) = "_" \/ Lower(Head(p)) = Lower(Head(s)))
         /\ LikeMatch(Tail(p), Tail(s))

\* column.ilike(f'%{text}%')
ILikeContains(value, text) ==
    value # None /\ LikeMatch(<<"%">> \o text \o <<"%">>, value[1])

\* text comparison of the store (code point order)
RECURSIVE TextLess(_, _)
TextLess(s, t) ==
    IF t = <<>> THEN FALSE
    ELSE IF s = <<>> THEN TRUE
    ELSE IF Ord(Head(s)) # Ord(Head(t)) THEN Ord(Head(s)) < Ord(Head(t))
    ELSE TextLess(Tail(s), Tail(t))

---------------------------------------------------------------------------
(* GET /api/books *)

DefaultPage == 1
DefaultPerPage == 5

\* the value of a column of row id, as an option
ColumnOf(bs, id, col) ==
    CASE col = "id"         -> Some(id)
      [] col = "title"      -> bs[id].title
      [] col = "author"     -> bs[id].author
      [] col = "year"       -> bs[id].year
      [] col = "isbn"       -> bs[id].isbn
      [] col = "created_at" -> bs[id].created_at

\* ORDER BY comparison of two column values: NULL sorts before every value
SqlLess(col, x, y) ==
    IF y = None THEN FALSE
    ELSE IF x = None THEN TRUE
    ELSE IF col \in {"title", "author", "isbn"} THEN TextLess(x[1], y[1])
    ELSE x[1] < y[1]

\* the elements of a set of ids in ascending order
RECURSIVE Ascending(_)
Ascending(S) ==
    IF S = {} THEN <<>>
    ELSE LET m == CHOOSE x \in S : \A y \in S : x <= y
         IN  <<m>> \o Ascending(S \ {m})

\* the table scan of a query without ORDER BY: rows by ascending id
RowidOrder(bs) == Ascending(DOMAIN bs)

\* row x must come before row y under ORDER BY col [DESC]
Before(bs, col, desc, x, y) ==
    IF desc THEN SqlLess(col, ColumnOf(bs, y, col), ColumnOf(bs, x, col))
            ELSE SqlLess(col, ColumnOf(bs, x, col), ColumnOf(bs, y, col))

\* the sequences of the rows S in which no row comes after one it must precede
RECURSIVE SortedOrders(_, _, _, _)
SortedOrders(bs, S, col, desc) ==
    IF S = {} THEN {<<>>}
    ELSE UNION { { <<x>> \o o : o \in SortedOrders(bs, S \ {x}, col, desc) } :
                 x \in { x \in S : \A y \in S : ~Before(bs, col, desc, y, x) } }

\* the orders query.order_by(column) may produce: sorted by the column,
\* rows of equal value in any order
Orderings(bs, col, desc) == SortedOrders(bs, DOMAIN bs, col, desc)

\* a page that starts one page too far
Paginate_skipsPage(ordered, page, per_page) ==
    LET offset == page * per_page
        left   == Len(ordered) - offset
        n      == IF left <= 0 THEN 0 ELSE IF left < per_page THEN left ELSE per_page
    IN  [i \in 1..n |-> ordered[offset + i]]

\* query.paginate(page, per_page, error_out=False) for page, per_page >= 1:
\* LIMIT per_page OFFSET (page - 1) * per_page
Paginate(ordered, page, per_page) ==
    LET offset == (page - 1) * per_page
        left   == Len(ordered) - offset
        n      == IF left <= 0 THEN 0 ELSE IF left < per_page THEN left ELSE per_page
    IN  [i \in 1..n |-> ordered[offset + i]]

\* the responses get_books may give (one per order the store may return)
get_books(bs, args) ==
    LET page     == ArgInt(args.page, DefaultPage)
        per_page == ArgInt(args.per_page, DefaultPerPage)
        sort     == IF args.sort = None THEN "id" ELSE args.sort[1]
        order    == IF args.order = None THEN "asc" ELSE args.order[1]
        Page(ordered) ==
            LET items == Paginate(ordered, page, per_page) IN
            Json("list", 200,
                 [ success  |-> TRUE,
                   page     |-> page,
                   per_page |-> per_page,
                   total    |-> Cardinality(DOMAIN bs),
                   books    |-> [i \in DOMAIN items |-> to_dict(items[i], bs[items[i]])] ])
    IN  IF sort \in BookOtherAttrs
        THEN { Unhandled("list", IF order = "desc" THEN "AttributeError"
                                                   ELSE "ArgumentError") }
        ELSE IF sort \in BookColumns
        THEN { Page(o) : o \in Orderings(bs, sort, order = "desc") }
        ELSE { Page(RowidOrder(bs)) }

---------------------------------------------------------------------------
(* GET /api/books/search *)

search_books(bs, args) ==
    LET title  == args.q
        author == args.author
        year   == args.year
        Match(id) ==
            /\ Truthy(title)  => ILikeContains(bs[id].title, title[1])
            /\ Truthy(author) => ILikeContains(bs[id].author, author[1])
            /\ Truthy(year)   => bs[id].year = ParseInt(year[1])
        scan  == RowidOrder(bs)
        found == SelectSeq(scan, Match)
    IN  IF Truthy(year) /\ ParseInt(year[1]) = None
        THEN Unhandled("search", "ValueError")
        ELSE Json("search", 200,
                  [ success |-> TRUE,
                    count   |-> Len(found),
                    books   |-> [i \in DOMAIN found |-> to_dict(found[i], bs[found[i]])] ])

---------------------------------------------------------------------------
(* init_db: the sample rows (texts abbreviated to two characters) *)

sample_books ==
    (1 :> [ title |-> Some(<<"A", "b">>), author |-> Some(<<"X">>),
            year |-> Some(2019), isbn |-> Some(<<"1">>), created_at |-> Some(0) ])
    @@
    (2 :> [ title |-> Some(<<"B", "a">>), author |-> Some(<<"a", "x">>),
            year |-> Some(2018), isbn |-> Some(<<"2">>), created_at |-> Some(0) ])
    @@
    (3 :> [ title |-> Some(<<"b">>), author |-> Some(<<"B">>),
            year |-> Some(2008), isbn |-> Some(<<"3">>), created_at |-> Some(0) ])

\* the table with no rows
NoBooks == [i \in {} |-> None]

---------------------------------------------------------------------------
(* Requests the exploration sends *)

Keys == {"title", "author", "year", "isbn"}

\* the times at which a request may arrive (datetime.utcnow); the sample
\* rows were stored at time 0
Times == {1}

\* JSON objects over the four known keys, each key present or not
DictsOf(titles, authors, years, isbns) ==
    UNION { { [k \in K |-> f[k]] :
                f \in [title : titles, author : authors, year : years, isbn : isbns] } :
            K \in SUBSET Keys }

\* a JSON object holding only a key the handlers do not know
OtherDict == [other |-> Some(<<"x">>)]

\* request bodies as request.get_json() returns them: None for no JSON body
BodiesOf(dicts) == {None} \cup {Some(d) : d \in dicts \cup {OtherDict}}

\* Bodies of the write-heavy exploration: empty and non-empty texts
Bodies ==
    BodiesOf(DictsOf({Some(<<>>), Some(<<"A", "b">>)},
                     {Some(<<"X">>)},
                     {Some(2019)},
                     {Some(<<>>), Some(<<"1">>)}))

\* further bodies: null titles, null and empty authors, null year and isbn,
\* another isbn
MoreDicts ==
    { [title |-> None],
      [title |-> None, author |-> Some(<<"X">>), isbn |-> Some(<<"1">>)],
      [author |-> None],
      [author |-> Some(<<>>)],
      [year |-> None],
      [isbn |-> None],
      [isbn |-> Some(<<"2">>)],
      [title |-> Some(<<"A", "b">>), author |-> None],
      [title |-> Some(<<"A", "b">>), author |-> Some(<<>>)],
      [title |-> Some(<<"b">>), author |-> Some(<<"X">>), year |-> None],
      [title |-> Some(<<"b">>), author |-> Some(<<"X">>), isbn |-> None],
      [title |-> Some(<<"b">>), author |-> Some(<<"X">>), isbn |-> Some(<<"2">>)],
      [title |-> Some(<<>>), author |-> Some(<<>>), isbn |-> Some(<<"1">>)] }

\* every body the properties are checked for, in each state reached
AllBodies == Bodies \cup {Some(d) : d \in MoreDicts}

\* Bodies of the read-heavy exploration
FewBodies ==
    { Some([title |-> Some(<<"a", "B">>), author |-> Some(<<"x">>)]),
      Some(OtherDict) }


\* query strings of GET /api/books
ListArgs ==
    [ page     : {None, Some(<<"2">>)},
      per_page : {None, Some(<<"2">>)},
      sort     : {None, Some("year"), Some("to_dict")},
      order    : {None, Some("desc")} ]

\* every query string the properties of get_books are checked for
AllListArgs ==
    [ page     : {None, Some(<<"1">>), Some(<<"2">>), Some(<<"3">>), Some(<<"4">>),
                  Some(<<"x">>)},
      per_page : {None, Some(<<"1">>), Some(<<"2">>), Some(<<"3">>), Some(<<"x">>)},
      sort     : {None, Some("id"), Some("year"), Some("title"), Some("nosuch"),
                  Some("to_dict")},
      order    : {None, Some("asc"), Some("desc")} ]

NoListArgs == [page |-> None, per_page |-> None, sort |-> None, order |-> None]

\* query strings of GET /api/books/search
SearchArgs ==
    [ q      : {None, Some(<<"a">>)},
      author : {None, Some(<<"x">>)},
      year   : {None, Some(<<"2", "0", "1", "9">>), Some(<<"x">>)} ]

\* every query string the properties of search_books are checked for
AllSearchArgs ==
    [ q      : {None, Some(<<>>), Some(<<"a">>), Some(<<"B">>), Some(<<"a", "b">>),
                Some(<<"_">>), Some(<<"%">>)},
      author : {None, Some(<<>>), Some(<<"x">>)},
      year   : {None, Some(<<>>), Some(<<"2", "0", "1", "9">>),
                Some(<<"2", "0", "0", "8">>), Some(<<"x">>)} ]

NoSearchArgs == [q |-> None, author |-> None, year |-> None]

---------------------------------------------------------------------------
(* The state machine: one action per request handler *)

NoResponse == [op |-> "none", status |-> 0, body |-> [success |-> TRUE]]

\* the threads of the server that handle requests at the same time
Workers == {"w1", "w2"}

\* a worker between requests: nothing received, nothing in its session
Idle == [pc |-> "idle", data |-> None, new_book |-> None, id |-> None, resp |-> NoResponse]

NoRequests == [w \in Workers |-> Idle]

\* the table emptied (every sample row deleted), no request answered yet
Init == books = NoBooks /\ resp = NoResponse /\ deleted = {} /\ inflight = NoRequests

\* the table as init_db leaves a fresh database
InitSeeded ==
    books = sample_books /\ resp = NoResponse /\ deleted = {} /\ inflight = NoRequests

CreateBook(bodies, maxId) ==
    \E data \in bodies, now \in Times :
        LET o == create_book(books, data, now) IN
        /\ o.resp.status = 201 => NextId(books) <= maxId
        /\ books' = o.books
        /\ resp' = o.resp
        /\ UNCHANGED <<deleted, inflight>>

UpdateBook(ids, bodies) ==
    \E id \in ids, data \in bodies :
        LET o == update_book(books, id, data) IN
        /\ books' = o.books
        /\ resp' = o.resp
        /\ UNCHANGED <<deleted, inflight>>

DeleteBook(ids, tracked) ==
    \E id \in ids :
        LET o == delete_book(books, id) IN
        /\ books' = o.books
        /\ resp' = o.resp
        /\ deleted' = IF tracked /\ o.resp.status = 200
                      THEN deleted \cup {id} ELSE deleted
        /\ UNCHANGED inflight

GetBooks(argsets) ==
    \E args \in argsets :
        /\ resp' \in get_books(books, args)
        /\ UNCHANGED <<books, deleted, inflight>>

SearchBooks(argsets) ==
    \E args \in argsets :
        /\ resp' = search_books(books, args)
        /\ UNCHANGED <<books, deleted, inflight>>

\* every body the write handlers distinguish, the reads without parameters
Next ==
    \/ CreateBook(Bodies, MaxId)
    \/ UpdateBook(1..MaxId, Bodies)
    \/ DeleteBook(1..MaxId, FALSE)
    \/ GetBooks({NoListArgs})
    \/ SearchBooks({NoSearchArgs})

Spec == Init /\ [][Next]_vars

\* from the sample rows: a few writes, every query string of the reads
NextSeeded ==
    \/ CreateBook(FewBodies, MaxSeededId)
    \/ UpdateBook(1..MaxSeededId, FewBodies)
    \/ DeleteBook(1..MaxSeededId, FALSE)
    \/ GetBooks(ListArgs)
    \/ SearchBooks(SearchArgs)

SpecSeeded == InitSeeded /\ [][NextSeeded]_vars

\* from the sample rows, remembering which ids delete_book has removed
NextTracked ==
    \/ CreateBook(FewBodies, MaxSeededId)
    \/ UpdateBook(1..MaxSeededId, FewBodies)
    \/ DeleteBook(1..MaxSeededId, TRUE)
    \/ GetBooks({NoListArgs})
    \/ SearchBooks({NoSearchArgs})

SpecTracked == InitSeeded /\ [][NextTracked]_vars

---------------------------------------------------------------------------
(* POST /api/books served by several workers at once: each request is the  *)
(* steps of create_book, and the steps of different workers interleave.    *)
(* A worker's session holds its new row until the commit; the store lets   *)
(* one transaction write at a time.                                        *)

\* the bodies the racing requests send
RacingBodies ==
    { None,
      Some([title |-> Some(<<"A", "b">>), author |-> Some(<<"X">>)]),
      Some([title |-> Some(<<"A", "b">>), author |-> Some(<<"X">>),
            isbn |-> Some(<<"1">>)]),
      Some([title |-> Some(<<"B", "a">>), author |-> Some(<<"X">>),
            isbn |-> Some(<<"1">>)]),
      Some([title |-> Some(<<"b">>), author |-> Some(<<"X">>),
            isbn |-> Some(<<"2">>)]) }

\* the requests being served
Serving == { w \in Workers : inflight[w].pc # "idle" }

\* the worker whose transaction has written and not yet committed
Writers == { w \in Workers : inflight[w].pc = "flushed" }

\* return r: the request is over, the session is discarded
Answer(w, r) ==
    /\ inflight' = [inflight EXCEPT ![w] = [Idle EXCEPT !.resp = r]]
    /\ resp' = r

\* move on to the next step of the handler
Goto(w, pc, fields) ==
    /\ inflight' = [inflight EXCEPT ![w] = [pc |-> pc] @@ fields @@ inflight[w]]
    /\ UNCHANGED resp

\* a constraint check that lets every row in
InsertFault_unchecked(bs, id, row) == None

\* the INSERT of the flush: the IntegrityError it raises, None when the
\* row satisfies the constraints of the table
InsertFault(bs, id, row) == IntegrityFault((id :> row) @@ bs)

\* request.get_json() and the validation of the body
Receive(w, maxId) ==
    /\ inflight[w].pc = "idle"
    /\ NextId(books) + Cardinality(Serving) <= maxId
    /\ \E data \in RacingBodies :
          IF NotData(data)
          THEN Answer(w, Error("create", 400, "No data provided"))
          ELSE IF ~Truthy(Get(data[1], "title")) \/ ~Truthy(Get(data[1], "author"))
          THEN Answer(w, Error("create", 400, "Title and author are required"))
          ELSE Goto(w, "check", [data |-> data])
    /\ UNCHANGED <<books, deleted>>

\* the lookup of the isbn among the committed rows
CheckIsbn(w) ==
    /\ inflight[w].pc = "check"
    /\ LET d == inflight[w].data[1] IN
       IF Truthy(Get(d, "isbn")) /\ IsbnExists(books, Get(d, "isbn"))
       THEN Answer(w, Error("create", 400, "ISBN already exists"))
       ELSE Goto(w, "add", [data |-> inflight[w].data])
    /\ UNCHANGED <<books, deleted>>

\* Book(...) and db.session.add: the row is pending in the worker's session
AddBook(w) ==
    /\ inflight[w].pc = "add"
    /\ LET d == inflight[w].data[1] IN
       Goto(w, "commit", [new_book |-> Some([ title      |-> d["title"],
                                              author     |-> d["author"],
                                              year       |-> Get(d, "year"),
                                              isbn       |-> Get(d, "isbn"),
                                              created_at |-> None ])])
    /\ UNCHANGED <<books, deleted>>

\* db.session.commit(), first half: the flush INSERTs the row in the
\* worker's transaction once no other transaction is writing; the store
\* assigns the id and checks the constraints against the committed rows
Flush(w) ==
    /\ inflight[w].pc = "commit"
    /\ Writers = {}
    /\ \E now \in Times :
          LET id  == NextId(books)
              row == [inflight[w].new_book[1] EXCEPT !.created_at = Some(now)]
              exc == InsertFault(books, id, row)
          IN  IF exc # None
              THEN Answer(w, Unhandled("create", exc[1]))
              ELSE Goto(w, "flushed", [new_book |-> Some(row), id |-> Some(id)])
    /\ UNCHANGED <<books, deleted>>

\* db.session.commit(), while another transaction holds the write lock of
\* the store: the wait may run out
BusyTimeout(w) ==
    /\ inflight[w].pc = "commit"
    /\ Writers # {}
    /\ Answer(w, Unhandled("create", "OperationalError: database is locked"))
    /\ UNCHANGED <<books, deleted>>

\* db.session.commit(), second half: COMMIT makes the row visible, and the
\* handler returns 201 with the row
CommitTxn(w) ==
    /\ inflight[w].pc = "flushed"
    /\ LET id  == inflight[w].id[1]
           row == inflight[w].new_book[1]
       IN  /\ books' = (id :> row) @@ books
           /\ Answer(w, Json("create", 201,
                             [ success |-> TRUE,
                               message |-> "Book created successfully",
                               book    |-> to_dict(id, row) ]))
    /\ UNCHANGED deleted

NextConcurrent ==
    \E w \in Workers :
        \/ Receive(w, MaxId)
        \/ CheckIsbn(w)
        \/ AddBook(w)
        \/ Flush(w)
        \/ BusyTimeout(w)
        \/ CommitTxn(w)

SpecConcurrent == Init /\ [][NextConcurrent]_vars

---------------------------------------------------------------------------
(* Shapes of responses, used by the properties below *)

\* a success envelope: {success: true, ...} with a 2xx status
IsSuccess(r) ==
    /\ r.status \in {200, 201}
    /\ "success" \in DOMAIN r.body
    /\ r.body.success = TRUE

\* an error envelope {success: false, error} with the given status
IsError(r, status) ==
    /\ r.status = status
    /\ DOMAIN r.body = {"success", "error"}
    /\ r.body.success = FALSE

\* an exception that reached Flask: 500, no envelope
IsFault(r) == r.status = 500 /\ "exception" \in DOMAIN r.body

\* the rows of bs that hold the isbn
Holding(bs, isbn) == { i \in DOMAIN bs : bs[i].isbn = isbn }

\* ids a path may name in the properties: those of the rows and one more
PathIds(bs) == DOMAIN bs \cup {NextId(bs)}

---------------------------------------------------------------------------
(* C1: in every state reached by create_book, update_book and delete_book  *)
(* requests, no two distinct Book rows hold the same non-null isbn; an     *)
(* update_book that sets isbn to a value another row holds does not get    *)
(* through, although the handler makes no check of its own.                *)

C1_IsbnUnique ==
    \A i, j \in DOMAIN books :
        (i # j /\ books[i].isbn # None) => books[i].isbn # books[j].isbn

\* an update_book was refused by the store because of the isbn it set
C1_Witness ==
    /\ resp.op = "update"
    /\ IsFault(resp)
    /\ resp.body.exception = "IntegrityError: UNIQUE constraint failed: book.isbn"
    /\ \E i \in DOMAIN books : books[i].isbn # None

---------------------------------------------------------------------------
(* C2: every persisted Book row has a non-empty title and a non-empty      *)
(* author (neither null nor ''), also after an update_book whose body      *)
(* carries a title or author key with any value.                           *)

C2_TitleAuthorNonEmpty ==
    \A i \in DOMAIN books : Truthy(books[i].title) /\ Truthy(books[i].author)

---------------------------------------------------------------------------
(* C3: create_book with a non-empty isbn that an existing row holds fails  *)
(* with 400 and an error envelope, and leaves the table as it was, with    *)
(* still exactly one row holding that isbn.                                *)

C3_DuplicateIsbnRejected ==
    \A data \in AllBodies, now \in Times :
        (/\ data # None
         /\ Truthy(Get(data[1], "isbn"))
         /\ Holding(books, Get(data[1], "isbn")) # {})
        => LET o == create_book(books, data, now) IN
           /\ IsError(o.resp, 400)
           /\ o.books = books
           /\ Cardinality(Holding(o.books, Get(data[1], "isbn"))) = 1

\* a create_book was answered "ISBN already exists"
C3_Witness ==
    /\ resp.op = "create"
    /\ IsError(resp, 400)
    /\ resp.body.error = "ISBN already exists"
    /\ \E i \in DOMAIN books : Truthy(books[i].isbn)

---------------------------------------------------------------------------
(* C4: every request to list, create, update, delete and search either     *)
(* succeeds with a success envelope or fails with 400 or 404 and an error  *)
(* envelope; no request ends in an unhandled fault.                        *)

C4_NoUnhandledFault ==
    resp.op # "none" => (IsSuccess(resp) \/ IsError(resp, 400) \/ IsError(resp, 404))

---------------------------------------------------------------------------
(* C5: for page >= 1 and per_page = k >= 1, get_books returns the          *)
(* contiguous slice of the ordered collection that starts at offset        *)
(* (page-1)*k and has at most k rows, and reports total as the full row    *)
(* count; page ceil(total/k) returns total mod k rows (k when k divides    *)
(* total) and a page beyond the last returns an empty list with success.   *)
(* Checked for every sort value that is a column or no attribute at all.   *)

\* the decimal text of a one-digit number
DigitText(n) == << CHOOSE c \in DigitChars : DigitVal(c) = n >>

\* the orders the collection may be listed in under sort and order
CollectionOrders(bs, sort, order) ==
    IF sort # None /\ sort[1] \in BookColumns
    THEN Orderings(bs, sort[1], order = Some("desc"))
    ELSE IF sort = None
    THEN Orderings(bs, "id", order = Some("desc"))
    ELSE {Ascending(DOMAIN bs)}

C5_PageIsSlice ==
    \A p \in 1..4, k \in 1..3,
       sort \in {None, Some("year"), Some("title"), Some("nosuch")},
       order \in {None, Some("desc")} :
        LET args  == [ page |-> Some(DigitText(p)), per_page |-> Some(DigitText(k)),
                       sort |-> sort, order |-> order ]
            total == Cardinality(DOMAIN books)
            off   == (p - 1) * k
            last  == (total + k - 1) \div k
            rs    == get_books(books, args)
        IN  /\ rs # {}
            /\ \A r \in rs :
                 /\ r.status = 200 /\ IsSuccess(r)
                 /\ r.body.page = p /\ r.body.per_page = k
                 /\ r.body.total = total
                 /\ Len(r.body.books) <= k
                 /\ off >= total => Len(r.body.books) = 0
                 /\ (off + k <= total) => Len(r.body.books) = k
                 /\ (off < total /\ total < off + k) => Len(r.body.books) = total - off
                 /\ (total > 0 /\ p = last) =>
                       Len(r.body.books) = IF total % k = 0 THEN k ELSE total % k
                 /\ p > last => r.body.books = <<>>
                 /\ \E o \in CollectionOrders(books, sort, order) :
                       \A i \in 1..Len(r.body.books) :
                          r.body.books[i] = to_dict(o[off + i], books[o[off + i]])
                 /\ (sort = None /\ order = None) =>
                       \A i \in 1..Len(r.body.books) :
                          Cardinality({ j \in DOMAIN books : j < r.body.books[i].id })
                             = off + i - 1

\* page 2 of 3 rows, two to a page: the one row left
C5_Witness ==
    /\ resp.op = "list"
    /\ IsSuccess(resp)
    /\ resp.body.page = 2 /\ resp.body.per_page = 2
    /\ resp.body.total = 3
    /\ Len(resp.body.books) = 1

---------------------------------------------------------------------------
(* C6: a successful update_book on row r changes only the fields of r      *)
(* whose keys are in the body (they take the body's values); the fields    *)
(* whose keys are absent, r's id and created_at, and every other row stay  *)
(* as they were.                                                           *)

C6_UpdateFrame ==
    \A id \in DOMAIN books, data \in AllBodies :
        LET o == update_book(books, id, data) IN
        IsSuccess(o.resp) =>
            /\ DOMAIN o.books = DOMAIN books
            /\ \A j \in DOMAIN books \ {id} : o.books[j] = books[j]
            /\ \A k \in Keys :
                  o.books[id][k] = IF k \in DOMAIN data[1] THEN data[1][k]
                                                           ELSE books[id][k]
            /\ o.books[id].created_at = books[id].created_at
            /\ o.resp.body.book.id = id
            /\ o.resp.body.book = to_dict(id, o.books[id])

\* an update_book succeeded on a row that has a year and no isbn
C6_Witness ==
    /\ resp.op = "update"
    /\ IsSuccess(resp)
    /\ resp.body.book.year = Some(2019)
    /\ resp.body.book.isbn = None
    /\ Cardinality(DOMAIN books) > 1

---------------------------------------------------------------------------
(* C7: after a successful delete_book(id), in every later state the id     *)
(* resolves to no row: it is in no list or search result, update_book and  *)
(* delete_book on it return 404, and no later create_book makes it resolve *)
(* again.                                                                  *)

C7_DeletedIdStaysGone ==
    \A id \in deleted :
        /\ id \notin DOMAIN books
        /\ \A data \in FewBodies : IsError(update_book(books, id, data).resp, 404)
        /\ IsError(delete_book(books, id).resp, 404)
        /\ LET r == search_books(books, NoSearchArgs) IN
           \A i \in 1..Len(r.body.books) : r.body.books[i].id # id

---------------------------------------------------------------------------
(* C8: create_book with non-empty title and author and an isbn that is     *)
(* absent or not in use returns 201 and adds exactly one row: its id is    *)
(* the id of no row present before, created_at is non-null, title and      *)
(* author are the given ones, year and isbn are as given or null; the      *)
(* other rows are unchanged, and the new row is returned by a following    *)
(* list and by a search for its title.                                     *)

\* the key is missing from the object, or its value is null or ''
Blank(d, k) == k \notin DOMAIN d \/ d[k] = None \/ d[k] = Some(<<>>)

C8_CreateAddsOneRow ==
    \A data \in AllBodies, now \in Times :
        (/\ data # None
         /\ ~Blank(data[1], "title") /\ ~Blank(data[1], "author")
         /\ ("isbn" \notin DOMAIN data[1]
               \/ data[1]["isbn"] = None
               \/ Holding(books, data[1]["isbn"]) = {}))
        => LET d  == data[1]
               o  == create_book(books, data, now)
               id == o.resp.body.book.id
               newest == [ page |-> None, per_page |-> None,
                           sort |-> Some("id"), order |-> Some("desc") ]
               found  == search_books(o.books,
                                      [q |-> d["title"], author |-> None, year |-> None])
           IN  /\ o.resp.status = 201 /\ IsSuccess(o.resp)
               /\ id \notin DOMAIN books
               /\ DOMAIN o.books = DOMAIN books \cup {id}
               /\ \A j \in DOMAIN books : o.books[j] = books[j]
               /\ o.books[id].title = d["title"]
               /\ o.books[id].author = d["author"]
               /\ o.books[id].year = (IF "year" \in DOMAIN d THEN d["year"] ELSE None)
               /\ o.books[id].isbn = (IF "isbn" \in DOMAIN d THEN d["isbn"] ELSE None)
               /\ o.books[id].created_at = Some(now)
               /\ o.resp.body.book = to_dict(id, o.books[id])
               /\ o.resp.body.book.created_at # None
               /\ \A r \in get_books(o.books, newest) :
                     IsSuccess(r) /\ r.body.books[1] = o.resp.body.book
               /\ IsSuccess(found)
               /\ Cardinality({ i \in 1..Len(found.body.books) :
                                   found.body.books[i] = o.resp.body.book }) = 1

\* a create_book was answered 201 for a second row, without year or isbn
C8_Witness ==
    /\ resp.op = "create"
    /\ resp.status = 201
    /\ resp.body.book.id \in DOMAIN books
    /\ resp.body.book.year = None /\ resp.body.book.isbn = None
    /\ Cardinality(DOMAIN books) > 1

---------------------------------------------------------------------------
(* C9: create_book fails with 400 and an error envelope when the body is   *)
(* absent or empty, or title or author is missing or empty; no row is      *)
(* added.  The checks come before the duplicate-isbn check: an invalid     *)
(* request with a duplicate isbn is answered as a validation failure.      *)

C9_CreateValidates ==
    \A data \in AllBodies, now \in Times :
        (\/ data = None
         \/ DOMAIN data[1] = {}
         \/ Blank(data[1], "title")
         \/ Blank(data[1], "author"))
        => LET o == create_book(books, data, now) IN
           /\ IsError(o.resp, 400)
           /\ o.books = books
           /\ o.resp.body.error \in {"No data provided", "Title and author are required"}

\* a create_book was answered "Title and author are required" while some
\* row holds an isbn
C9_Witness ==
    /\ resp.op = "create"
    /\ IsError(resp, 400)
    /\ resp.body.error = "Title and author are required"
    /\ \E i \in DOMAIN books : books[i].isbn = Some(<<"1">>)

---------------------------------------------------------------------------
(* C10: update_book returns 404 when no row has the id, whatever the body, *)
(* and 400 when the row exists and the body is absent, the table unchanged *)
(* in both cases.  As claimed: every body that is present but holds none   *)
(* of the keys title, author, year, isbn succeeds and changes nothing.     *)

\* the part of the claim that holds as stated
C10_NotFoundThenNoBody(id, data) ==
    LET o == update_book(books, id, data) IN
    /\ id \notin DOMAIN books => (IsError(o.resp, 404) /\ o.books = books)
    /\ (id \in DOMAIN books /\ data = None) => (IsError(o.resp, 400) /\ o.books = books)

\* the body is applied as an update with no keys: success, nothing changed
C10_AppliedWithNoKeys(id, data) ==
    LET o == update_book(books, id, data) IN
    /\ o.resp.status = 200 /\ IsSuccess(o.resp)
    /\ o.books = books
    /\ o.resp.body.book = to_dict(id, books[id])

C10_Original ==
    \A id \in PathIds(books), data \in AllBodies :
        /\ C10_NotFoundThenNoBody(id, data)
        /\ (id \in DOMAIN books /\ data # None /\ DOMAIN data[1] \cap Keys = {})
              => C10_AppliedWithNoKeys(id, data)

(* C10 as amended: a body that is present and not empty but holds none of  *)
(* the four keys succeeds and changes nothing; an empty JSON object is     *)
(* answered like an absent body, 400 "No data provided", table unchanged.  *)
C10_Amended ==
    \A id \in PathIds(books), data \in AllBodies :
        LET o == update_book(books, id, data) IN
        /\ C10_NotFoundThenNoBody(id, data)
        /\ (id \in DOMAIN books /\ data # None /\ DOMAIN data[1] # {}
              /\ DOMAIN data[1] \cap Keys = {})
              => C10_AppliedWithNoKeys(id, data)
        /\ (id \in DOMAIN books /\ data # None /\ DOMAIN data[1] = {})
              => /\ IsError(o.resp, 400)
                 /\ o.resp.body.error = "No data provided"
                 /\ o.books = books

\* an update_book of an existing row was answered "No data provided"
C10_Witness ==
    /\ resp.op = "update"
    /\ IsError(resp, 400)
    /\ resp.body.error = "No data provided"
    /\ DOMAIN books # {}

---------------------------------------------------------------------------
(* C11: search_books returns exactly the rows that satisfy every supplied  *)
(* filter at once (q: case-insensitive substring of title, author:         *)
(* case-insensitive substring of author, year: integer equality), filters  *)
(* that are not supplied restrict nothing, and count is the number of      *)
(* books returned.                                                         *)

\* sub occurs in text, letter case ignored, every character taken literally
FoldedSubstring(sub, text) ==
    \E i \in 0..(Len(text) - Len(sub)) :
        \A j \in 1..Len(sub) : Lower(text[i + j]) = Lower(sub[j])

\* the rows the claim's filters select
C11_Selected(bs, args) ==
    { id \in DOMAIN bs :
        /\ args.q # None =>
              (bs[id].title # None /\ FoldedSubstring(args.q[1], bs[id].title[1]))
        /\ args.author # None =>
              (bs[id].author # None /\ FoldedSubstring(args.author[1], bs[id].author[1]))
        /\ args.year # None =>
              (bs[id].year # None
                 /\ bs[id].year[1] = DigitsValue(args.year[1], 0)) }

\* the response lists exactly the rows of S, each once and as stored
C11_Returns(bs, r, S) ==
    /\ r.status = 200 /\ IsSuccess(r)
    /\ r.body.count = Len(r.body.books)
    /\ Len(r.body.books) = Cardinality(S)
    /\ { r.body.books[i] : i \in DOMAIN r.body.books } = { to_dict(id, bs[id]) : id \in S }

\* query strings whose year, when supplied, is an integer
C11_Queries == { a \in AllSearchArgs : a.year = None \/ IsDigits(a.year[1]) }

\* the characters LIKE reads as wildcards
C11_Literal(text) == \A i \in 1..Len(text) : text[i] \notin {"%", "_"}

C11_SearchIsFilter ==
    \A args \in C11_Queries :
        C11_Returns(books, search_books(books, args), C11_Selected(books, args))

\* the same property for the query strings without a LIKE wildcard in q or
\* author: for these the search is the substring filter
C11_SearchIsFilterOfLiterals ==
    \A args \in C11_Queries :
        ( /\ args.q # None => C11_Literal(args.q[1])
          /\ args.author # None => C11_Literal(args.author[1]) )
           => C11_Returns(books, search_books(books, args), C11_Selected(books, args))

---------------------------------------------------------------------------
(* C12: when create_book requests with the same non-empty isbn are served  *)
(* at once with their steps interleaved, the unique constraint lets at     *)
(* most one of them commit: in every reachable state at most one row holds *)
(* an isbn, and the row of a request is either wholly in the table (after  *)
(* its commit) or not in it at all.                                        *)

\* the last answer of the worker is a 201 for a book with this isbn
C12_Created(w, isbn) ==
    /\ inflight[w].resp.op = "create"
    /\ inflight[w].resp.status = 201
    /\ inflight[w].resp.body.book.isbn = isbn

\* no row of the table is the uncommitted row of the worker
C12_NotVisible(w) ==
    inflight[w].id # None => inflight[w].id[1] \notin DOMAIN books

\* a step that changes the table is the commit of one worker: it adds the
\* whole row of that worker under a new id and changes no other row
C12_WholeRowAtCommit ==
    books' # books =>
        \E w \in Workers :
            /\ inflight[w].pc = "flushed"
            /\ inflight[w].id[1] \notin DOMAIN books
            /\ books' = (inflight[w].id[1] :> inflight[w].new_book[1]) @@ books
            /\ inflight'[w].resp.status = 201

\* the row the worker was answered with is in the table, every field of it
C12_FullyVisible(w) ==
    LET book == inflight[w].resp.body.book IN
    /\ book.id \in DOMAIN books
    /\ to_dict(book.id, books[book.id]) = book
    /\ book.title # None /\ book.author # None /\ book.created_at # None

C12_OneCommitPerIsbn ==
    /\ [](/\ \A isbn \in {Some(<<"1">>), Some(<<"2">>)} :
             /\ Cardinality(Holding(books, isbn)) <= 1
             /\ \A v, w \in Workers :
                   (C12_Created(v, isbn) /\ C12_Created(w, isbn)) => v = w
          /\ \A w \in Serving : C12_NotVisible(w)
          /\ \A w \in Workers :
                (inflight[w].resp.op = "create" /\ inflight[w].resp.status = 201)
                    => C12_FullyVisible(w))
    /\ [][C12_WholeRowAtCommit]_vars

\* two requests with the same isbn both passed the lookup; one of them was
\* answered 201, the other was stopped by the unique constraint at its
\* commit, and one row holds the isbn
C12_Witness ==
    /\ C12_Created("w1", Some(<<"1">>))
    /\ inflight["w2"].resp = Unhandled("create",
                                 "IntegrityError: UNIQUE constraint failed: book.isbn")
    /\ Cardinality(Holding(books, Some(<<"1">>))) = 1

=============================================================================
